---- MODULE Spec2Model ----
(***************************************************************************)
(* QDII gold fund valuation: the gold price source chain with its cache    *)
(* (src/src/fetch_gold.py) and the valuation engine (src/src/valuation.py).*)
(*                                                                         *)
(* Units: wall-clock time in hours, dates in days (day = hour \div 24, day *)
(* 0 is a Monday), prices in cents, percentages as integers, and decimals  *)
(* of the valuation engine as exact rationals [num, den].                  *)
(***************************************************************************)
EXTENDS Integers, Sequences, FiniteSets, TLC

VARIABLES
    now,            \* wall clock, in hours (datetime.now())
    cacheFile,      \* content of ../data/gold_data_cache.json
    pc,             \* position inside fetch_gold_prices: idle, A, B, C, sim
    attempts,       \* price sources contacted in the current cycle and what each gave
    writes,         \* calls of _cache_gold_data in the current cycle, in order
    outcome,        \* how the last cycle ended: none, cache, A, B, C, sim, raised
    result,         \* value returned by the last finished cycle
    cacheAtStart,   \* cacheFile when the current cycle started
    lastLiveStore,  \* triple and time of the last live fetch stored intact, or None
    quoteAtStart,   \* lastLiveStore when the current cycle started
    call            \* last call of a valuation function: its name, arguments, result

chainVars == <<now, cacheFile, pc, attempts, writes, outcome, result,
               cacheAtStart, lastLiveStore, quoteAtStart>>
vars == <<now, cacheFile, pc, attempts, writes, outcome, result,
          cacheAtStart, lastLiveStore, quoteAtStart, call>>

---------------------------------------------------------------------------
(* Bounds of the model *)

\* the runs cover this many hours after the start
MaxElapsed == 48
\* the clock advances in steps of this many hours
TickHours == 12
\* rows of a price history reach at most this many days back
HistSpan == 3
\* a price history has at most this many rows
MaxRows == 3

(* Program constants *)

\* timedelta(hours=24)
StaleHours == 24
\* timedelta(days=10)
HistoryDays == 10
\* base_price = 2050.0, in cents
BasePrice == 205000

\* the first instant of the runs: 00:00 of the Monday of the second week
StartHour == 7 * 24
\* prices a live source can quote, in cents
PriceSet == {200000, 205000}
\* draws of np.random.normal for a daily variation, in percent
Variations == {-2, 2}
\* draws of np.random.normal(0, 50) for the simulated base price, in cents
BaseNoise == {-5000, 0}

PeriodLabels == {"current", "t1", "t2"}
SourceOrder == <<"A", "B", "C">>

---------------------------------------------------------------------------
(* Python values *)

None == [none |-> TRUE]
\* truth value of a returned mapping or None: a non-empty dict is true
Truthy(x) == x # None /\ DOMAIN x # {}

Return(v) == [raised |-> FALSE, ret |-> v]
Raise == [raised |-> TRUE, ret |-> None]
\* try: body / except Exception: return handlerValue
TryExcept(body, handlerValue) == IF body.raised THEN Return(handlerValue) ELSE body

\* datetime.date() and datetime.weekday() (0 is Monday)
DayOf(hour) == hour \div 24
Weekday(day) == day % 7
\* datetime.isoformat() and datetime.fromisoformat()
isoformat(hour) == <<hour \div 24, hour % 24>>
IsIso(s) == s \in (Nat \X (0..23))
fromisoformat(s) == s[1] * 24 + s[2]

\* round(n / d, 2) of a price in cents (d > 0)
RoundCents(n, d) == (n + d \div 2) \div d

Point(price, day) == [price |-> price, date |-> day]

---------------------------------------------------------------------------
(* The cache file *)

AbsentFile == [kind |-> "absent"]
\* a file that is not a JSON document (empty, truncated, garbage)
TruncatedFile == [kind |-> "invalid_json"]

\* _cache_gold_data merging into an existing cache instead of replacing it
_cache_gold_data_KeepsOld(data, file, hour, fault) ==
    LET kept == IF file.kind = "json" /\ "data" \in DOMAIN file THEN file.data ELSE data
        cache_data == [kind |-> "json",
                       data |-> kept,
                       timestamp |-> isoformat(hour),
                       source |-> "yahoo_finance"]
        body == CASE fault = "open" -> [raised |-> TRUE, file |-> file]
                  [] fault = "dump" -> [raised |-> TRUE, file |-> TruncatedFile]
                  [] OTHER -> [raised |-> FALSE, file |-> cache_data]
    IN  [raised |-> FALSE, file |-> body.file]

\* _cache_gold_data: fault "open" is open() failing, fault "dump" is json.dump
\* failing after open(.., 'w') truncated the file. Gives the new file content.
_cache_gold_data(data, file, hour, fault) ==
    LET cache_data == [kind |-> "json",
                       data |-> data,
                       timestamp |-> isoformat(hour),
                       source |-> "yahoo_finance"]
        body == CASE fault = "open" -> [raised |-> TRUE, file |-> file]
                  [] fault = "dump" -> [raised |-> TRUE, file |-> TruncatedFile]
                  [] OTHER -> [raised |-> FALSE, file |-> cache_data]
    IN  [raised |-> FALSE, file |-> body.file]

\* _load_cached_gold_data without the age test
_load_cached_gold_data_AnyAge(file, hour) ==
    LET body ==
          IF file.kind = "absent" THEN Return(None)
          ELSE IF file.kind # "json" THEN Raise
          ELSE IF "timestamp" \notin DOMAIN file THEN Raise
          ELSE IF ~IsIso(file.timestamp) THEN Raise
          ELSE IF "data" \in DOMAIN file THEN Return(file.data) ELSE Raise
    IN  TryExcept(body, None)

\* _load_cached_gold_data with "<= timedelta(hours=24)"
_load_cached_gold_data_StaleInclusive(file, hour) ==
    LET body ==
          IF file.kind = "absent" THEN Return(None)
          ELSE IF file.kind # "json" THEN Raise
          ELSE IF "timestamp" \notin DOMAIN file THEN Raise
          ELSE IF ~IsIso(file.timestamp) THEN Raise
          ELSE IF hour - fromisoformat(file.timestamp) <= StaleHours
               THEN IF "data" \in DOMAIN file THEN Return(file.data) ELSE Raise
               ELSE Return(None)
    IN  TryExcept(body, None)

\* _load_cached_gold_data without its try/except
_load_cached_gold_data_NoExcept(file, hour) ==
    IF file.kind = "absent" THEN Return(None)
    ELSE IF file.kind # "json" THEN Raise
    ELSE IF "timestamp" \notin DOMAIN file THEN Raise
    ELSE IF ~IsIso(file.timestamp) THEN Raise
    ELSE IF hour - fromisoformat(file.timestamp) < StaleHours
         THEN IF "data" \in DOMAIN file THEN Return(file.data) ELSE Raise
         ELSE Return(None)

\* _load_cached_gold_data: the data of a cache younger than 24 hours, else None
_load_cached_gold_data(file, hour) ==
    LET body ==
          IF file.kind = "absent" THEN Return(None)
          ELSE IF file.kind # "json" THEN Raise
          ELSE IF "timestamp" \notin DOMAIN file THEN Raise
          ELSE IF ~IsIso(file.timestamp) THEN Raise
          ELSE IF hour - fromisoformat(file.timestamp) < StaleHours
               THEN IF "data" \in DOMAIN file THEN Return(file.data) ELSE Raise
               ELSE Return(None)
    IN  TryExcept(body, None)

---------------------------------------------------------------------------
(* Source A: metals.live spot price *)

\* dates of t-1 and t-2, moved back across the weekend
\* the weekend adjustment without its Tuesday branch
AdjustedDates_NoTuesday(today) ==
    IF Weekday(today) = 0 THEN [t1 |-> today - 3, t2 |-> today - 4]
    ELSE [t1 |-> today - 1, t2 |-> today - 2]

AdjustedDates(today) ==
    IF Weekday(today) = 0 THEN [t1 |-> today - 3, t2 |-> today - 4]
    ELSE IF Weekday(today) = 1 THEN [t1 |-> today - 1, t2 |-> today - 4]
    ELSE [t1 |-> today - 1, t2 |-> today - 2]

MetalsResponses ==
    {[kind |-> k, price |-> 0, v1 |-> 0, v2 |-> 0] :
        k \in {"timeout", "http_error", "malformed"}}
    \cup {[kind |-> "ok", price |-> p, v1 |-> a, v2 |-> b] :
            p \in PriceSet \cup {0}, a \in Variations, b \in Variations}

fetch_metals_api_gold(resp, today) ==
    LET d == AdjustedDates(today)
        prices == [current |-> Point(RoundCents(resp.price, 1), today),
                   t1 |-> Point(RoundCents(resp.price * (100 - resp.v1), 100), d.t1),
                   t2 |-> Point(RoundCents(resp.price * (100 - resp.v1) * (100 - resp.v2),
                                           10000), d.t2)]
        body == IF resp.kind \in {"timeout", "malformed"} THEN Raise
                ELSE IF resp.kind = "ok" /\ resp.price > 0 THEN Return(prices)
                ELSE Return(None)
    IN  TryExcept(body, None)

---------------------------------------------------------------------------
(* Sources B and C: Yahoo Finance daily history of GC=F and of XAU=X *)

WriteFaults == {"none", "open", "dump"}

HistoryWindow(today) ==
    {d \in (today - HistoryDays)..today : d >= today - HistSpan}

\* a price history: rows of strictly increasing days inside the window
Histories(today) ==
    {h \in UNION {[1..n -> [day : HistoryWindow(today), close : PriceSet]] :
                    n \in 0..MaxRows} :
        \A i \in 1..(Len(h) - 1) : h[i].day < h[i + 1].day}

YahooResponses(today) ==
    {[kind |-> "error", rows |-> <<>>]}
    \cup {[kind |-> "history", rows |-> h] : h \in Histories(today)}

IsBusinessDay(row) == Weekday(row.day) < 5

\* LastThreeCloses without the else branches that collapse t-1 and t-2
LastThreeCloses_NoCollapse(hist_data) ==
    LET n == Len(hist_data)
        current == [current |-> Point(hist_data[n].close, hist_data[n].day)]
        t1 == IF n >= 2
              THEN [t1 |-> Point(hist_data[n - 1].close, hist_data[n - 1].day)]
              ELSE <<>>
        t2 == IF n >= 3
              THEN [t2 |-> Point(hist_data[n - 2].close, hist_data[n - 2].day)]
              ELSE <<>>
    IN  current @@ t1 @@ t2

\* lines 115-142: current, t-1 and t-2 from the closes that are left (n >= 1)
LastThreeCloses(hist_data) ==
    LET n == Len(hist_data)
        current == Point(hist_data[n].close, hist_data[n].day)
        t1 == IF n >= 2 THEN Point(hist_data[n - 1].close, hist_data[n - 1].day)
              ELSE current
        t2 == IF n >= 3 THEN Point(hist_data[n - 2].close, hist_data[n - 2].day)
              ELSE t1
    IN  [current |-> current, t1 |-> t1, t2 |-> t2]

\* gives the returned value, the cache file it leaves and the faults of its
\* calls of _cache_gold_data
fetch_gold_prices_yahoo_finance(resp, file, hour, fault) ==
    LET hist_data == SelectSeq(resp.rows, IsBusinessDay)
        prices == LastThreeCloses(hist_data)
        untouched == [file |-> file, writes |-> <<>>]
        body ==
          IF resp.kind = "error" THEN Raise @@ untouched
          ELSE IF resp.rows = <<>> THEN Return(None) @@ untouched
          ELSE IF Len(hist_data) < 2 THEN Return(None) @@ untouched
          ELSE Return(prices) @@
               [file |-> _cache_gold_data(prices, file, hour, fault).file,
                writes |-> <<fault>>]
    IN  IF body.raised THEN Return(None) @@ untouched ELSE body

---------------------------------------------------------------------------
(* Simulated data *)

_generate_realistic_gold_data(noise, change1, change2, today) ==
    LET base_price == BasePrice + noise
        d == AdjustedDates(today)
    IN  [current |-> Point(RoundCents(base_price * (100 + change1) * (100 + change2),
                                      10000), today),
         t1 |-> Point(RoundCents(base_price * (100 + change1), 100), d.t1),
         t2 |-> Point(RoundCents(base_price, 1), d.t2)]

---------------------------------------------------------------------------
(* fetch_gold_prices, one step per source *)

\* NextStep going from source A straight to source C
NextStep_SkipsFutures(step) ==
    CASE step = "A" -> "C"
      [] step = "B" -> "C"
      [] step = "C" -> "sim"

\* the step that follows a failed source
NextStep(step) ==
    CASE step = "A" -> "B"
      [] step = "B" -> "C"
      [] step = "C" -> "sim"

\* ReturnIfFetched without the call of _cache_gold_data
ReturnIfFetched_NoStore(fetched, file, hour, fault) ==
    IF ~fetched.raised /\ Truthy(fetched.ret)
    THEN Return(fetched.ret) @@ [done |-> TRUE, file |-> file, writes |-> <<>>]
    ELSE Return(None) @@ [done |-> FALSE, file |-> file, writes |-> <<>>]

\* "if gold_prices: self._cache_gold_data(gold_prices); return gold_prices"
\* inside try/except, around the value a source gave. done: the cycle returns.
ReturnIfFetched(fetched, file, hour, fault) ==
    LET body ==
          IF fetched.raised THEN Raise @@ [done |-> FALSE, file |-> file, writes |-> <<>>]
          ELSE IF Truthy(fetched.ret)
               THEN Return(fetched.ret) @@
                    [done |-> TRUE,
                     file |-> _cache_gold_data(fetched.ret, file, hour, fault).file,
                     writes |-> <<fault>>]
               ELSE Return(None) @@ [done |-> FALSE, file |-> file, writes |-> <<>>]
    IN  IF body.raised
        THEN Return(None) @@ [done |-> FALSE, file |-> file, writes |-> <<>>]
        ELSE body

\* step 5 caching the simulated data like a live fetch
ReturnSimulated_Stores(prices, file, hour) ==
    Return(prices) @@
    [done |-> TRUE,
     file |-> _cache_gold_data(prices, file, hour, "none").file,
     writes |-> <<"none">>]

\* step 5: "return self._generate_realistic_gold_data()"
ReturnSimulated(prices, file, hour) ==
    Return(prices) @@ [done |-> TRUE, file |-> file, writes |-> <<>>]

\* what a cycle leaves in lastLiveStore
Stored(step, old, hour) ==
    IF \E i \in 1..Len(step.writes) : step.writes[i] # "none" THEN None
    ELSE IF step.done /\ step.writes # <<>> THEN [triple |-> step.ret, time |-> hour]
    ELSE old

Forget ==
    /\ outcome' = "none"
    /\ result' = None
    /\ attempts' = <<>>
    /\ writes' = <<>>
    /\ cacheAtStart' = cacheFile'
    /\ quoteAtStart' = lastLiveStore'

\* time passes between two cycles
Tick ==
    /\ pc = "idle"
    /\ now + TickHours <= StartHour + MaxElapsed
    /\ now' = now + TickHours
    /\ UNCHANGED <<cacheFile, pc, lastLiveStore, call>>
    /\ Forget

\* what can become of the cache file between two cycles: deleted, truncated,
\* a field lost, the timestamp made unreadable
Damaged(file) ==
    {AbsentFile, TruncatedFile}
    \cup (IF file.kind = "json" /\ {"data", "timestamp"} \subseteq DOMAIN file
          THEN {[kind |-> "json", data |-> file.data, source |-> file.source],
                [kind |-> "json", timestamp |-> file.timestamp, source |-> file.source],
                [file EXCEPT !.timestamp = "not a date"]}
          ELSE {})

Tamper ==
    /\ pc = "idle"
    /\ cacheFile' \in Damaged(cacheFile) \ {cacheFile}
    /\ lastLiveStore' = None
    /\ UNCHANGED <<now, pc, call>>
    /\ Forget

\* step 1 of fetch_gold_prices
LoadCache ==
    /\ pc = "idle"
    /\ LET cached_data == _load_cached_gold_data(cacheFile, now)
       IN  IF cached_data.raised
           THEN pc' = "idle" /\ outcome' = "raised" /\ result' = None
           ELSE IF Truthy(cached_data.ret)
                THEN pc' = "idle" /\ outcome' = "cache" /\ result' = cached_data.ret
                ELSE pc' = "A" /\ outcome' = "none" /\ result' = None
    /\ attempts' = <<>>
    /\ writes' = <<>>
    /\ cacheAtStart' = cacheFile
    /\ quoteAtStart' = lastLiveStore
    /\ UNCHANGED <<now, cacheFile, lastLiveStore, call>>

\* the end of a step: return, or go on with the next source
Advance(name, fetched, step) ==
    /\ attempts' = Append(attempts, [source |-> name, got |-> fetched.ret])
    /\ writes' = writes \o step.writes
    /\ cacheFile' = step.file
    /\ lastLiveStore' = Stored(step, lastLiveStore, now)
    /\ IF step.done
       THEN pc' = "idle" /\ outcome' = name /\ result' = step.ret
       ELSE pc' = NextStep(name) /\ outcome' = "none" /\ result' = None
    /\ UNCHANGED <<now, cacheAtStart, quoteAtStart, call>>

\* step 2
TryMetalsApi ==
    /\ pc = "A"
    /\ \E resp \in MetalsResponses, fault \in WriteFaults :
         LET fetched == fetch_metals_api_gold(resp, DayOf(now))
         IN  Advance("A", fetched, ReturnIfFetched(fetched, cacheFile, now, fault))

TryYahoo(name) ==
    /\ pc = name
    /\ \E resp \in YahooResponses(DayOf(now)), inner \in WriteFaults, fault \in WriteFaults :
         LET fetched == fetch_gold_prices_yahoo_finance(resp, cacheFile, now, inner)
             step == ReturnIfFetched(fetched, fetched.file, now, fault)
         IN  Advance(name, fetched, [step EXCEPT !.writes = fetched.writes \o step.writes])

\* step 3
TryYahooFutures == TryYahoo("B")
\* step 4
TryYahooSpot == TryYahoo("C")

\* step 5
GenerateSimulated ==
    /\ pc = "sim"
    /\ \E noise \in BaseNoise, c1 \in Variations, c2 \in Variations :
         LET step == ReturnSimulated(
                       _generate_realistic_gold_data(noise, c1, c2, DayOf(now)),
                       cacheFile, now)
         IN  /\ writes' = writes \o step.writes
             /\ cacheFile' = step.file
             /\ lastLiveStore' = Stored(step, lastLiveStore, now)
             /\ pc' = "idle" /\ outcome' = "sim" /\ result' = step.ret
             /\ UNCHANGED <<now, attempts, cacheAtStart, quoteAtStart, call>>

---------------------------------------------------------------------------
(* Decimals of the valuation engine: exact rationals in lowest terms *)

RECURSIVE GCD(_, _)
GCD(a, b) == IF b = 0 THEN a ELSE GCD(b, a % b)
Abs(x) == IF x < 0 THEN -x ELSE x

\* n / d in lowest terms with a positive denominator (d # 0)
Rat(n, d) ==
    LET g == GCD(Abs(n), Abs(d))
        s == IF d < 0 THEN -1 ELSE 1
    IN  [num |-> s * (n \div g), den |-> s * (d \div g)]

RatOfInt(k) == [num |-> k, den |-> 1]
RatAdd(a, b) ==
    LET l == (a.den \div GCD(a.den, b.den)) * b.den
    IN  Rat(a.num * (l \div a.den) + b.num * (l \div b.den), l)
RatNeg(a) == [num |-> -a.num, den |-> a.den]
RatSub(a, b) == RatAdd(a, RatNeg(b))
RatMul(a, b) ==
    LET g1 == GCD(Abs(a.num), b.den)
        g2 == GCD(Abs(b.num), a.den)
    IN  Rat((a.num \div g1) * (b.num \div g2), (a.den \div g2) * (b.den \div g1))
\* 1 / b (b # 0)
RatRecip(b) ==
    IF b.num < 0 THEN [num |-> -b.den, den |-> -b.num]
    ELSE [num |-> b.den, den |-> b.num]
\* Python's a / b: ZeroDivisionError when b is 0
Divide(a, b) == IF b.num = 0 THEN Raise ELSE Return(RatMul(a, RatRecip(b)))

\* Integers beyond 32 bits, for the one subtraction whose exact result needs
\* them (premium_change): a sign and a magnitude, the magnitude a sequence of
\* base-10000 digits, least significant first, without leading zero digits.
Base == 10000
RECURSIVE MagOfNat(_)
MagOfNat(n) == IF n = 0 THEN <<>> ELSE <<n % Base>> \o MagOfNat(n \div Base)
RECURSIVE MagTrim(_)
MagTrim(m) ==
    IF m = <<>> THEN <<>>
    ELSE IF m[Len(m)] = 0 THEN MagTrim(SubSeq(m, 1, Len(m) - 1)) ELSE m
MagHead(m) == IF m = <<>> THEN 0 ELSE Head(m)
MagTail(m) == IF m = <<>> THEN <<>> ELSE Tail(m)
RECURSIVE MagAdd(_, _, _)
MagAdd(a, b, carry) ==
    IF a = <<>> /\ b = <<>> THEN MagOfNat(carry)
    ELSE LET x == MagHead(a) + MagHead(b) + carry
         IN  <<x % Base>> \o MagAdd(MagTail(a), MagTail(b), x \div Base)
RECURSIVE MagLess(_, _)
MagLess(a, b) ==
    IF Len(a) # Len(b) THEN Len(a) < Len(b)
    ELSE IF a = <<>> THEN FALSE
    ELSE IF a[Len(a)] # b[Len(b)] THEN a[Len(a)] < b[Len(b)]
    ELSE MagLess(SubSeq(a, 1, Len(a) - 1), SubSeq(b, 1, Len(b) - 1))
\* a - b - borrow for a >= b + borrow, digit by digit
RECURSIVE MagSubDigits(_, _, _)
MagSubDigits(a, b, borrow) ==
    IF a = <<>> THEN <<>>
    ELSE LET x == Head(a) - MagHead(b) - borrow
         IN  IF x < 0
             THEN <<x + Base>> \o MagSubDigits(Tail(a), MagTail(b), 1)
             ELSE <<x>> \o MagSubDigits(Tail(a), MagTail(b), 0)
MagSub(a, b) == MagTrim(MagSubDigits(a, b, 0))
RECURSIVE MagMulDigit(_, _, _)
MagMulDigit(a, d, carry) ==
    IF a = <<>> THEN MagOfNat(carry)
    ELSE LET x == Head(a) * d + carry
         IN  <<x % Base>> \o MagMulDigit(Tail(a), d, x \div Base)
RECURSIVE MagMul(_, _)
MagMul(a, b) ==
    IF a = <<>> \/ b = <<>> THEN <<>>
    ELSE LET rest == MagMul(a, Tail(b))
         IN  MagAdd(MagTrim(MagMulDigit(a, Head(b), 0)),
                    IF rest = <<>> THEN <<>> ELSE <<0>> \o rest, 0)

Wide(n) == [neg |-> n < 0, mag |-> MagOfNat(Abs(n))]
WideNeg(a) == [neg |-> a.mag # <<>> /\ ~a.neg, mag |-> a.mag]
WideAdd(a, b) ==
    IF a.neg = b.neg THEN [neg |-> a.neg, mag |-> MagAdd(a.mag, b.mag, 0)]
    ELSE IF MagLess(a.mag, b.mag) THEN [neg |-> b.neg, mag |-> MagSub(b.mag, a.mag)]
    ELSE IF a.mag = b.mag THEN [neg |-> FALSE, mag |-> <<>>]
    ELSE [neg |-> a.neg, mag |-> MagSub(a.mag, b.mag)]
WideSub(a, b) == WideAdd(a, WideNeg(b))
WideMul(a, b) ==
    LET m == MagMul(a.mag, b.mag)
    IN  [neg |-> m # <<>> /\ a.neg # b.neg, mag |-> m]
WideLess(a, b) ==
    IF a.neg # b.neg THEN a.neg
    ELSE IF a.neg THEN MagLess(b.mag, a.mag) ELSE MagLess(a.mag, b.mag)
\* a < b by cross-multiplication, the products taken in wide integers
RatLess(a, b) ==
    WideLess(WideMul(Wide(a.num), Wide(b.den)), WideMul(Wide(b.num), Wide(a.den)))
\* a - b of two fractions in lowest terms, as a fraction of wide integers
\* (exact, not reduced)
WideRatSub(a, b) ==
    [num |-> WideSub(WideMul(Wide(a.num), Wide(b.den)),
                     WideMul(Wide(b.num), Wide(a.den))),
     den |-> WideMul(Wide(a.den), Wide(b.den))]

---------------------------------------------------------------------------
(* FundValuationAnalyzer *)

\* the literals -0.01 and 0.01 of _get_arbitrage_signal
BuyThreshold == Rat(-1, 100)
SellThreshold == Rat(1, 100)

\* calculate_estimated_nav with "nav_t2 * gold_return_total"
calculate_estimated_nav_NoGrowth(nav_t2, gold_return_total) ==
    IF nav_t2.num = 0 THEN RatOfInt(0)
    ELSE RatMul(nav_t2, gold_return_total)

calculate_estimated_nav(nav_t2, gold_return_total) ==
    IF nav_t2.num = 0 THEN RatOfInt(0)
    ELSE RatMul(nav_t2, RatAdd(RatOfInt(1), gold_return_total))

\* _get_arbitrage_signal with "<=" and ">="
_get_arbitrage_signal_Inclusive(premium_rate) ==
    IF ~RatLess(BuyThreshold, premium_rate) THEN "BUY"
    ELSE IF ~RatLess(premium_rate, SellThreshold) THEN "SELL"
    ELSE "HOLD"

\* _get_arbitrage_signal with the two signals exchanged
_get_arbitrage_signal_Exchanged(premium_rate) ==
    IF RatLess(premium_rate, BuyThreshold) THEN "SELL"
    ELSE IF RatLess(SellThreshold, premium_rate) THEN "BUY"
    ELSE "HOLD"

_get_arbitrage_signal(premium_rate) ==
    IF RatLess(premium_rate, BuyThreshold) THEN "BUY"
    ELSE IF RatLess(SellThreshold, premium_rate) THEN "SELL"
    ELSE "HOLD"

\* calculate_premium with the operands of the subtraction exchanged
calculate_premium_Swapped(current_price, estimated_nav) ==
    IF estimated_nav.num = 0 THEN Return(RatOfInt(0))
    ELSE Divide(RatSub(estimated_nav, current_price), estimated_nav)

\* calculate_premium without "if estimated_nav == 0: return 0"
calculate_premium_NoGuard(current_price, estimated_nav) ==
    Divide(RatSub(current_price, estimated_nav), estimated_nav)

calculate_premium(current_price, estimated_nav) ==
    IF estimated_nav.num = 0 THEN Return(RatOfInt(0))
    ELSE Divide(RatSub(current_price, estimated_nav), estimated_nav)

\* gold_prices[label]['price'] raises for a missing key or a None operand
HasPrice(gold_prices, label) ==
    /\ label \in DOMAIN gold_prices
    /\ "price" \in DOMAIN gold_prices[label]

\* get_gold_return dividing by the current price
get_gold_return_CurrentBase(gold_prices) ==
    TryExcept(
        IF ~HasPrice(gold_prices, "t2") \/ ~HasPrice(gold_prices, "current")
        THEN Raise
        ELSE LET gold_t2 == RatOfInt(gold_prices["t2"].price)
                 gold_current == RatOfInt(gold_prices["current"].price)
             IN  IF gold_t2.num = 0 THEN Return(RatOfInt(0))
                 ELSE Divide(RatSub(gold_current, gold_t2), gold_current),
        RatOfInt(0))

get_gold_return(gold_prices) ==
    TryExcept(
        IF ~HasPrice(gold_prices, "t2") \/ ~HasPrice(gold_prices, "current")
        THEN Raise
        ELSE LET gold_t2 == RatOfInt(gold_prices["t2"].price)
                 gold_current == RatOfInt(gold_prices["current"].price)
             IN  IF gold_t2.num = 0 THEN Return(RatOfInt(0))
                 ELSE Divide(RatSub(gold_current, gold_t2), gold_t2),
        RatOfInt(0))

\* fund_data.get and gold_data.get: an attribute error for a record that is
\* not a dict, the default for a missing key
IsDict(x) == x # None
Get(d, key, default) == IF key \in DOMAIN d THEN d[key] ELSE default
\* a cell holding text where a number is expected makes the arithmetic raise
NotANumber == [text |-> "--"]
IsNumber(v) == DOMAIN v = {"num", "den"}

\* analyze_single_fund comparing with the reported premium in percent
analyze_single_fund_NoPercent(fund_data, gold_data) ==
    IF ~IsDict(fund_data) THEN Raise
    ELSE
    LET nav_t2 == Get(fund_data, "nav_t2", RatOfInt(0))
        current_price == Get(fund_data, "current_price", RatOfInt(0))
        gold_return_total == Get(gold_data, "gold_return_total", RatOfInt(0))
        reported == Get(fund_data, "premium_t1", RatOfInt(0))
    IN  IF ~IsNumber(nav_t2) \/ (nav_t2.num # 0 /\ ~IsNumber(gold_return_total))
        THEN Raise
        ELSE
        LET estimated_nav == calculate_estimated_nav(nav_t2, gold_return_total)
        IN  IF estimated_nav.num # 0 /\ ~IsNumber(current_price) THEN Raise
            ELSE
            LET current_premium == calculate_premium(current_price, estimated_nav)
            IN  IF current_premium.raised \/ ~IsNumber(reported) THEN Raise
                ELSE
                LET premium_t1 == reported
                IN  Return(
                      [fund_code |-> Get(fund_data, "fund_code", ""),
                       fund_name |-> Get(fund_data, "fund_name", ""),
                       nav_t2 |-> nav_t2,
                       estimated_nav_current |-> estimated_nav,
                       current_price |-> current_price,
                       premium_t1 |-> premium_t1,
                       premium_current |-> current_premium.ret,
                       premium_change |-> WideRatSub(current_premium.ret, premium_t1),
                       gold_return_total |-> gold_return_total,
                       arbitrage_signal |-> _get_arbitrage_signal(current_premium.ret)])

\* the result mapping without its analysis_time stamp
analyze_single_fund(fund_data, gold_data) ==
    IF ~IsDict(fund_data) THEN Raise
    ELSE
    LET nav_t2 == Get(fund_data, "nav_t2", RatOfInt(0))
        current_price == Get(fund_data, "current_price", RatOfInt(0))
        gold_return_total == Get(gold_data, "gold_return_total", RatOfInt(0))
        reported == Get(fund_data, "premium_t1", RatOfInt(0))
    IN  IF ~IsNumber(nav_t2) \/ (nav_t2.num # 0 /\ ~IsNumber(gold_return_total))
        THEN Raise
        ELSE
        LET estimated_nav == calculate_estimated_nav(nav_t2, gold_return_total)
        IN  IF estimated_nav.num # 0 /\ ~IsNumber(current_price) THEN Raise
            ELSE
            LET current_premium == calculate_premium(current_price, estimated_nav)
            IN  IF current_premium.raised \/ ~IsNumber(reported) THEN Raise
                ELSE
                LET premium_t1 == Divide(reported, RatOfInt(100)).ret
                IN  Return(
                      [fund_code |-> Get(fund_data, "fund_code", ""),
                       fund_name |-> Get(fund_data, "fund_name", ""),
                       nav_t2 |-> nav_t2,
                       estimated_nav_current |-> estimated_nav,
                       current_price |-> current_price,
                       premium_t1 |-> premium_t1,
                       premium_current |-> current_premium.ret,
                       premium_change |-> WideRatSub(current_premium.ret, premium_t1),
                       gold_return_total |-> gold_return_total,
                       arbitrage_signal |-> _get_arbitrage_signal(current_premium.ret)])

\* list.sort(key=premium_current): the place of x in a sorted list is behind
\* every element whose key is not greater (the sort is stable)
RECURSIVE InsertByPremium(_, _)
InsertByPremium(sorted, x) ==
    IF sorted = <<>> THEN <<x>>
    ELSE IF RatLess(x.premium_current, Head(sorted).premium_current)
         THEN <<x>> \o sorted
         ELSE <<Head(sorted)>> \o InsertByPremium(Tail(sorted), x)

RECURSIVE SortByPremium(_)
SortByPremium(results) ==
    IF results = <<>> THEN <<>>
    ELSE InsertByPremium(SortByPremium(SubSeq(results, 1, Len(results) - 1)),
                         results[Len(results)])

\* the loop of analyze_multiple_funds: a record whose analysis raises is
\* reported and skipped; the report itself calls fund_data.get, which raises
\* out of the loop when the record is not a dict
RECURSIVE AnalyzeEach(_, _, _)
AnalyzeEach(funds_data, gold_data, results) ==
    IF funds_data = <<>> THEN Return(results)
    ELSE LET fund_data == Head(funds_data)
             analysis == analyze_single_fund(fund_data, gold_data)
         IN  IF ~analysis.raised
             THEN AnalyzeEach(Tail(funds_data), gold_data, Append(results, analysis.ret))
             ELSE IF ~IsDict(fund_data) THEN Raise
             ELSE AnalyzeEach(Tail(funds_data), gold_data, results)

\* analyze_multiple_funds without results.sort
analyze_multiple_funds_Unsorted(funds_data, gold_data) ==
    LET loop == AnalyzeEach(funds_data, gold_data, <<>>)
    IN  IF loop.raised THEN Raise ELSE Return(loop.ret)

analyze_multiple_funds(funds_data, gold_data) ==
    LET loop == AnalyzeEach(funds_data, gold_data, <<>>)
    IN  IF loop.raised THEN Raise ELSE Return(SortByPremium(loop.ret))

RECURSIVE MinPremium(_)
MinPremium(premiums) ==
    IF Len(premiums) = 1 THEN premiums[1]
    ELSE LET rest == MinPremium(Tail(premiums))
         IN  IF RatLess(rest, Head(premiums)) THEN rest ELSE Head(premiums)
RECURSIVE MaxPremium(_)
MaxPremium(premiums) ==
    IF Len(premiums) = 1 THEN premiums[1]
    ELSE LET rest == MaxPremium(Tail(premiums))
         IN  IF RatLess(Head(premiums), rest) THEN rest ELSE Head(premiums)
\* sum(1 for ... if ...): the number of results that pass a test
CountOf(passing) == Cardinality(passing)
\* the empty dict
EmptyStats == <<>>

\* get_summary_stats counting a premium of 0 as a discount
get_summary_stats_DiscountInclusive(analysis_results) ==
    IF analysis_results = <<>> THEN EmptyStats
    ELSE LET premiums == [i \in 1 .. Len(analysis_results) |->
                              analysis_results[i].premium_current]
             AtDiscount(r) == ~RatLess(RatOfInt(0), r.premium_current)
             AtPremium(r) == RatLess(RatOfInt(0), r.premium_current)
             Buy(r) == r.arbitrage_signal = "BUY"
             Sell(r) == r.arbitrage_signal = "SELL"
         IN  [total_funds |-> Len(analysis_results),
              min_premium |-> MinPremium(premiums),
              max_premium |-> MaxPremium(premiums),
              funds_at_discount |-> CountOf({i \in DOMAIN analysis_results : AtDiscount(analysis_results[i])}),
              funds_at_premium |-> CountOf({i \in DOMAIN analysis_results : AtPremium(analysis_results[i])}),
              buy_signals |-> CountOf({i \in DOMAIN analysis_results : Buy(analysis_results[i])}),
              sell_signals |-> CountOf({i \in DOMAIN analysis_results : Sell(analysis_results[i])})]

\* the statistics without avg_premium, median_premium and std_premium
get_summary_stats(analysis_results) ==
    IF analysis_results = <<>> THEN EmptyStats
    ELSE LET premiums == [i \in 1 .. Len(analysis_results) |->
                              analysis_results[i].premium_current]
             AtDiscount(r) == RatLess(r.premium_current, RatOfInt(0))
             AtPremium(r) == RatLess(RatOfInt(0), r.premium_current)
             Buy(r) == r.arbitrage_signal = "BUY"
             Sell(r) == r.arbitrage_signal = "SELL"
         IN  [total_funds |-> Len(analysis_results),
              min_premium |-> MinPremium(premiums),
              max_premium |-> MaxPremium(premiums),
              funds_at_discount |-> CountOf({i \in DOMAIN analysis_results : AtDiscount(analysis_results[i])}),
              funds_at_premium |-> CountOf({i \in DOMAIN analysis_results : AtPremium(analysis_results[i])}),
              buy_signals |-> CountOf({i \in DOMAIN analysis_results : Buy(analysis_results[i])}),
              sell_signals |-> CountOf({i \in DOMAIN analysis_results : Sell(analysis_results[i])})]

\* premium rates in steps of 0.0005 around the two thresholds
MaxPremiumSteps == 40
PremiumGrid == {Rat(k, 2000) : k \in (-MaxPremiumSteps)..MaxPremiumSteps}
\* reported NAVs, in thousandths
NavGrid == {Rat(k, 1000) : k \in {-1000, 0, 1000, 4089}}
\* gold returns in steps of 0.0247
MaxReturnSteps == 20
ReturnGrid == {Rat(247 * k, 10000) : k \in (-MaxReturnSteps)..MaxReturnSteps}

\* market prices and estimated NAVs, in thousandths
PriceGrid == {Rat(k, 1000) : k \in {0, 1000, 4000, 4089, 4123, 4200}}
EstimatedNavGrid == {Rat(k, 1000) : k \in {-1000, 0, 1000, 4089, 4123}}

\* price triples handed to get_gold_return: prices in cents, 0 included,
\* and two mappings without a usable T-2 price
GoldPriceInputs ==
    {[current |-> Point(c, 0), t1 |-> Point(205000, 0), t2 |-> Point(t, 0)] :
        c \in PriceSet \cup {0, 210000}, t \in PriceSet \cup {0}}
    \cup {None, [current |-> Point(205000, 0)]}

\* fund records: NAV and price in thousandths, reported premium in
\* hundredths of a percent
FundCodes == {"518880", "159934"}
FundRecord(code, nav, price, reported) ==
    [fund_code |-> code, fund_name |-> "Gold ETF", nav_t2 |-> Rat(nav, 1000),
     current_price |-> Rat(price, 1000), premium_t1 |-> Rat(reported, 100)]
WellFormedFunds ==
    {FundRecord(code, nav, price, reported) :
        code \in FundCodes, nav \in {0, 4000, 4089},
        price \in {4000, 4123, 4200}, reported \in {-150, 54}}
\* a record that is not a dict, one with text in the NAV cell, and one with
\* nothing but its code
MalformedFunds ==
    {None,
     [fund_code |-> "518880", fund_name |-> "Gold ETF", nav_t2 |-> NotANumber,
      current_price |-> Rat(4123, 1000), premium_t1 |-> Rat(54, 100)],
     [fund_code |-> "159934"]}
\* gold returns of -2.47 %, 0 and 2.47 %
GoldData == {[gold_return_total |-> Rat(247 * k, 10000)] : k \in -1 .. 1}

\* batches handed to analyze_multiple_funds: up to MaxFunds records, the
\* dict records with distinct codes as the fund list supplies them
MaxFunds == 3
\* two funds with the same NAV and price, one with another pair, one with
\* NAV 0, one with nothing but its code, and two whose analysis raises
BatchPool ==
    {FundRecord("518880", 4089, 4123, 54),
     FundRecord("159934", 4089, 4123, 54),
     FundRecord("518800", 4000, 4200, 54),
     FundRecord("159937", 0, 4123, 54),
     [fund_code |-> "000216"],
     [fund_code |-> "159812", fund_name |-> "Gold ETF", nav_t2 |-> NotANumber,
      current_price |-> Rat(4123, 1000), premium_t1 |-> Rat(54, 100)],
     None}
DistinctCodes(funds_data) ==
    \A i, j \in 1 .. Len(funds_data) :
        (i < j /\ IsDict(funds_data[i]) /\ IsDict(funds_data[j]))
            => funds_data[i].fund_code # funds_data[j].fund_code
Batches ==
    {funds_data \in UNION {[1 .. n -> BatchPool] : n \in 0 .. MaxFunds} :
        DistinctCodes(funds_data)}

GetArbitrageSignal ==
    /\ \E p \in PremiumGrid :
         call' = [fn |-> "_get_arbitrage_signal", args |-> <<p>>,
                  ret |-> _get_arbitrage_signal(p)]
    /\ UNCHANGED chainVars

CalculateEstimatedNav ==
    /\ \E nav \in NavGrid, r \in ReturnGrid :
         call' = [fn |-> "calculate_estimated_nav", args |-> <<nav, r>>,
                  ret |-> calculate_estimated_nav(nav, r)]
    /\ UNCHANGED chainVars

CalculatePremium ==
    /\ \E price \in PriceGrid, nav \in EstimatedNavGrid :
         LET r == calculate_premium(price, nav)
         IN  call' = [fn |-> "calculate_premium", args |-> <<price, nav>>,
                      raised |-> r.raised, ret |-> r.ret]
    /\ UNCHANGED chainVars

GetGoldReturn ==
    /\ \E gold_prices \in GoldPriceInputs :
         LET r == get_gold_return(gold_prices)
         IN  call' = [fn |-> "get_gold_return", args |-> <<gold_prices>>,
                      raised |-> r.raised, ret |-> r.ret]
    /\ UNCHANGED chainVars

AnalyzeSingleFund ==
    /\ \E fund_data \in WellFormedFunds \cup MalformedFunds, gold_data \in GoldData :
         LET r == analyze_single_fund(fund_data, gold_data)
         IN  call' = [fn |-> "analyze_single_fund", args |-> <<fund_data, gold_data>>,
                      raised |-> r.raised, ret |-> r.ret]
    /\ UNCHANGED chainVars

AnalyzeMultipleFunds ==
    /\ call.fn = "pending_batch"
    /\ LET r == analyze_multiple_funds(call.args[1], call.args[2])
       IN  call' = [fn |-> "analyze_multiple_funds", args |-> call.args,
                    raised |-> r.raised, ret |-> r.ret]
    /\ UNCHANGED chainVars

\* the statistics of the batch just analysed
GetSummaryStats ==
    /\ call.fn = "analyze_multiple_funds"
    /\ ~call.raised
    /\ call' = [fn |-> "get_summary_stats", args |-> <<call.ret>>,
                raised |-> FALSE, ret |-> get_summary_stats(call.ret)]
    /\ UNCHANGED chainVars

---------------------------------------------------------------------------
(* FundDataFetcher.fetch_gold_qdii_funds *)

\* "if funds: all_funds.extend(funds)" over the search results in turn
RECURSIVE ExtendAll(_)
ExtendAll(search_results) ==
    IF search_results = <<>> THEN <<>>
    ELSE Head(search_results) \o ExtendAll(Tail(search_results))

\* the dict unique_funds as the sequence of its values in insertion order
HasCode(unique_funds, fund_code) ==
    \E i \in 1 .. Len(unique_funds) : unique_funds[i].fund_code = fund_code

\* one turn of the dedup loop assigning unique_funds[fund_code] = fund for
\* every record with a code: the last record of a code replaces the first
RememberFund_LastWins(unique_funds, fund) ==
    LET fund_code == Get(fund, "fund_code", "")
    IN  IF fund_code = "" THEN unique_funds
        ELSE IF HasCode(unique_funds, fund_code)
        THEN [i \in 1 .. Len(unique_funds) |->
                 IF unique_funds[i].fund_code = fund_code THEN fund ELSE unique_funds[i]]
        ELSE Append(unique_funds, fund)

\* one turn of the dedup loop
RememberFund(unique_funds, fund) ==
    LET fund_code == Get(fund, "fund_code", "")
    IN  IF fund_code # "" /\ ~HasCode(unique_funds, fund_code)
        THEN Append(unique_funds, fund)
        ELSE unique_funds

RECURSIVE UniqueFunds(_, _)
UniqueFunds(all_funds, unique_funds) ==
    IF all_funds = <<>> THEN unique_funds
    ELSE UniqueFunds(Tail(all_funds), RememberFund(unique_funds, Head(all_funds)))

\* the keyword and code tests of _is_gold_related_fund, on the names and
\* codes of the pool: "GOLD" in the upper-cased name, or a listed code
GoldPatterns == {"518800", "159934", "518880"}
_is_gold_related_fund(fund_info) ==
    \/ Get(fund_info, "fund_name", "") \in {"Gold ETF", "Gold LOF"}
    \/ Get(fund_info, "fund_code", "") \in GoldPatterns

\* the first records of the mock list, their random prices left out
_get_mock_data ==
    <<[fund_code |-> "518800", fund_name |-> "Gold ETF"],
      [fund_code |-> "159934", fund_name |-> "Gold ETF"]>>

\* the records a search can return: two with the same code and different
\* prices, one without a code, one that is not gold-related
SearchRecord(code, name, price) ==
    [fund_code |-> code, fund_name |-> name, current_price |-> Rat(price, 1000)]
SearchPool ==
    {SearchRecord("518880", "Gold ETF", 4123),
     SearchRecord("518880", "Gold ETF", 4200),
     SearchRecord("159934", "Gold LOF", 4123),
     SearchRecord("", "Gold ETF", 4123),
     SearchRecord("160216", "Oil LOF", 4123)}
\* the answer of one search: no record (also after an error), one or two
SearchAnswers ==
    {<<>>} \cup {<<a>> : a \in SearchPool} \cup {<<a, b>> : a, b \in SearchPool}
\* the number of search terms tried
MaxSearches == 2
SearchResults == UNION {[1 .. n -> SearchAnswers] : n \in 0 .. MaxSearches}

FetchGoldQdiiFunds ==
    /\ call.fn = "pending_search"
    /\ LET all_funds == ExtendAll(call.args[1])
           result_funds == UniqueFunds(all_funds, <<>>)
           filtered_funds == SelectSeq(result_funds, _is_gold_related_fund)
       IN  call' = [fn |-> "fetch_gold_qdii_funds", args |-> call.args,
                    result_funds |-> result_funds,
                    ret |-> IF filtered_funds = <<>> THEN _get_mock_data
                            ELSE filtered_funds]
    /\ UNCHANGED chainVars

---------------------------------------------------------------------------
(* GoldDataFetcher.fetch_exchange_rate *)

\* exchange rates, CNY per USD, given in units of 0.0001
FxRate(units) == Rat(units, 10000)
FxRates == {FxRate(71234), FxRate(72000)}
\* what requests.get and response.json() can give: no response in time, a
\* status other than 200, a body that is not JSON, JSON without 'rates',
\* rates without CNY, a CNY rate of 0, and a usable rate
InvalidJson == [kind |-> "invalid_json"]
RestResponses ==
    {[timeout |-> TRUE]}
    \cup {[status_code |-> st, json |-> [rates |-> [CNY |-> FxRate(71234)]]] : st \in {204, 500}}
    \cup {[status_code |-> 200, json |-> body] :
            body \in {InvalidJson, [result |-> "error"], [rates |-> [EUR |-> FxRate(9200)]],
                      [rates |-> [CNY |-> RatOfInt(0)]]}
                     \cup {[rates |-> [CNY |-> rate]] : rate \in FxRates}}
\* what Ticker.history can give: an exception, an empty frame, closes
FxHistories == {[timeout |-> TRUE], [Close |-> <<>>], [Close |-> <<FxRate(72100)>>],
                [Close |-> <<FxRate(71900), FxRate(72100)>>]}

\* one REST method whose exceptions leave fetch_exchange_rate
RestLookup_NoExcept(response) ==
    IF "timeout" \in DOMAIN response THEN Raise
    ELSE IF response.status_code # 200 THEN Return(None)
    ELSE IF response.json = InvalidJson \/ "rates" \notin DOMAIN response.json
         THEN Raise
    ELSE LET rate == Get(response.json.rates, "CNY", None)
         IN  IF rate # None /\ rate.num # 0 THEN Return(rate) ELSE Return(None)

\* the body of one REST method (methods 1 and 2 differ in the URL only): the
\* rate it returns, or None when control falls through to the next method
RestLookup(response) ==
    TryExcept(
        IF "timeout" \in DOMAIN response THEN Raise
        ELSE IF response.status_code # 200 THEN Return(None)
        ELSE IF response.json = InvalidJson \/ "rates" \notin DOMAIN response.json
             THEN Raise
        ELSE LET rate == Get(response.json.rates, "CNY", None)
             IN  IF rate # None /\ rate.num # 0 THEN Return(rate) ELSE Return(None),
        None)

\* the body of method 3
YahooLookup(hist) ==
    TryExcept(
        IF "timeout" \in DOMAIN hist THEN Raise
        ELSE IF hist.Close # <<>> THEN Return(hist.Close[Len(hist.Close)])
        ELSE Return(None),
        None)

\* 7.15 and the draws of np.random.normal(0, 0.1), in units of 0.00001
FallbackBase == 715000
FxNoise == {-10004, 0, 9996}
\* the fallback without the random draw
FallbackRate_NoDraw(noise) == FxRate(RoundCents(FallbackBase, 10))

\* round(7.15 + np.random.normal(0, 0.1), 4)
FallbackRate(noise) == FxRate(RoundCents(FallbackBase + noise, 10))

FxOrder == <<"exchangerate-api.com", "er-api.com", "Yahoo Finance">>
\* a call of fetch_exchange_rate: where it is, the providers it has asked and
\* their answers, the draw of its fallback, what it returned; lastFallback is
\* the rate of the latest earlier call that ended in the fallback
FxIdle ==
    [fn |-> "fetch_exchange_rate", pc |-> "idle", attempts |-> <<>>,
     draw |-> None, raised |-> FALSE, ret |-> None, lastFallback |-> None]

\* after a method: return its rate, leave with its exception, or go on
FxAfter(answer, looked, next) ==
    [call EXCEPT
        !.attempts = Append(@, [provider |-> FxOrder[Len(@) + 1], answer |-> answer]),
        !.raised = looked.raised,
        !.ret = looked.ret,
        !.pc = IF looked.raised \/ looked.ret # None THEN "done" ELSE next]

FxBegin ==
    /\ call.fn = "fetch_exchange_rate"
    /\ call.pc \in {"idle", "done"}
    /\ ~call.raised
    /\ call' = [FxIdle EXCEPT
                    !.pc = "method1",
                    !.lastFallback = IF call.draw # None THEN call.ret
                                     ELSE call.lastFallback]
    /\ UNCHANGED chainVars

FxExchangeRateApi ==
    /\ call.fn = "fetch_exchange_rate"
    /\ call.pc = "method1"
    /\ \E response \in RestResponses :
         call' = FxAfter(response, RestLookup(response), "method2")
    /\ UNCHANGED chainVars

FxErApi ==
    /\ call.fn = "fetch_exchange_rate"
    /\ call.pc = "method2"
    /\ \E response \in RestResponses :
         call' = FxAfter(response, RestLookup(response), "method3")
    /\ UNCHANGED chainVars

FxYahoo ==
    /\ call.fn = "fetch_exchange_rate"
    /\ call.pc = "method3"
    /\ \E hist \in FxHistories :
         call' = FxAfter(hist, YahooLookup(hist), "fallback")
    /\ UNCHANGED chainVars

FxFallback ==
    /\ call.fn = "fetch_exchange_rate"
    /\ call.pc = "fallback"
    /\ \E noise \in FxNoise :
         call' = [call EXCEPT !.draw = [noise |-> noise],
                              !.ret = FallbackRate(noise),
                              !.pc = "done"]
    /\ UNCHANGED chainVars

---------------------------------------------------------------------------
(* QDIIGoldAnalyzer.run_complete_analysis: the external calls of one cycle *)

\* timeout=10 of the requests.get calls of fetch_gold.py, in seconds
RequestTimeout == 10
\* Ticker.history is called without a timeout argument and runs under the
\* default of the yfinance library, in seconds
YfinanceTimeout == 10
\* a call without any timeout is followed for this many seconds
MaxWait == 12

\* the calls of fetch_gold_prices, of fetch_exchange_rate and of one
\* _search_funds_by_keyword, in program order
StageSites ==
    [prices |-> <<"metals.live", "GC=F", "XAU=X">>,
     fx |-> <<"exchangerate-api.com", "er-api.com", "USDCNY=X">>,
     funds |-> <<"jisilu page", "jisilu list">>]
\* the timeout a call is made with; None for session.get(url), which waits
\* for the answer without limit
TimeoutOf(site) ==
    CASE site \in {"metals.live", "exchangerate-api.com", "er-api.com"}
           -> [seconds |-> RequestTimeout]
      [] site \in {"GC=F", "XAU=X", "USDCNY=X"} -> [seconds |-> YfinanceTimeout]
      [] OTHER -> None

CycleIdle ==
    [fn |-> "run_complete_analysis", stage |-> "idle", site |-> 1, term |-> 1,
     waiting |-> FALSE, waited |-> 0, failures |-> 0, last |-> "none"]
InCycle == call.fn = "run_complete_analysis"
SiteName(c) == StageSites[c.stage][c.site]

\* where the program goes after a call: a chain returns on its first
\* success and falls back after its last failure; a search goes on to its
\* second request after the first, and to the next term otherwise
AfterCall(c, answer) ==
    LET ok == answer = "ok"
        rest == [c EXCEPT !.waiting = FALSE, !.waited = 0, !.last = answer,
                          !.failures = IF ok THEN @ ELSE @ + 1]
    IN  CASE c.stage = "prices" ->
               IF ok \/ c.site = 3 THEN [rest EXCEPT !.stage = "fx", !.site = 1]
               ELSE [rest EXCEPT !.site = @ + 1]
          [] c.stage = "fx" ->
               IF ok \/ c.site = 3 THEN [rest EXCEPT !.stage = "funds", !.site = 1]
               ELSE [rest EXCEPT !.site = @ + 1]
          [] OTHER ->
               IF ok /\ c.site = 1 THEN [rest EXCEPT !.site = 2]
               ELSE IF c.term < MaxSearches
                    THEN [rest EXCEPT !.site = 1, !.term = @ + 1]
                    ELSE [rest EXCEPT !.stage = "evaluate", !.site = 1]

\* a cycle starts; with a fresh cache it makes no price request
CycleBegin ==
    /\ InCycle
    /\ call.stage \in {"idle", "done"}
    /\ \E cached \in BOOLEAN :
         call' = [CycleIdle EXCEPT !.stage = IF cached THEN "fx" ELSE "prices"]
    /\ UNCHANGED chainVars

\* the request is sent and the program blocks in the call
CycleSend ==
    /\ InCycle
    /\ call.stage \in DOMAIN StageSites
    /\ ~call.waiting
    /\ call' = [call EXCEPT !.waiting = TRUE]
    /\ UNCHANGED chainVars

\* the endpoint answers, with a usable payload or not
CycleAnswer ==
    /\ InCycle
    /\ call.waiting
    /\ \E answer \in {"ok", "failed"} : call' = AfterCall(call, answer)
    /\ UNCHANGED chainVars

\* a second passes without an answer
CycleWait ==
    /\ InCycle
    /\ call.waiting
    /\ LET timeout == TimeoutOf(SiteName(call))
       IN  IF timeout = None THEN call.waited < MaxWait
           ELSE call.waited < timeout.seconds
    /\ call' = [call EXCEPT !.waited = @ + 1]
    /\ UNCHANGED chainVars

\* the timeout of the call expires: the exception is caught as a failure
CycleTimeout ==
    /\ InCycle
    /\ call.waiting
    /\ LET timeout == TimeoutOf(SiteName(call))
       IN  timeout # None /\ call.waited = timeout.seconds
    /\ call' = AfterCall(call, "timeout")
    /\ UNCHANGED chainVars

\* analyze_multiple_funds, display and save: no external call
CycleEvaluate ==
    /\ InCycle
    /\ call.stage = "evaluate"
    /\ call' = [call EXCEPT !.stage = "done"]
    /\ UNCHANGED chainVars

---------------------------------------------------------------------------
(* One call of a price source, on every day of a week *)

\* the days on which a call is made: a Monday and the six days after it
CallDays == {DayOf(StartHour) + k : k \in 0 .. 6}

FetchYahoo ==
    /\ call.fn = "pending_history"
    /\ LET resp == call.args[1]
           today == call.args[2]
           fetched == fetch_gold_prices_yahoo_finance(resp, AbsentFile, today * 24, "none")
       IN  call' = [fn |-> "fetch_gold_prices_yahoo_finance", args |-> call.args,
                    raised |-> fetched.raised, ret |-> fetched.ret]
    /\ UNCHANGED chainVars

FetchMetalsApi ==
    /\ call.fn = "pending_metals"
    /\ LET fetched == fetch_metals_api_gold(call.args[1], call.args[2])
       IN  call' = [fn |-> "fetch_metals_api_gold", args |-> call.args,
                    today |-> call.args[2],
                    raised |-> fetched.raised, ret |-> fetched.ret]
    /\ UNCHANGED chainVars

GenerateRealisticGoldData ==
    /\ call.fn = "pending_simulation"
    /\ call' = [fn |-> "_generate_realistic_gold_data", args |-> call.args,
                today |-> call.args[4],
                raised |-> FALSE,
                ret |-> _generate_realistic_gold_data(call.args[1], call.args[2],
                                                      call.args[3], call.args[4])]
    /\ UNCHANGED chainVars

---------------------------------------------------------------------------
(* Specifications *)

NoCall == [fn |-> "none"]

InitChain ==
    /\ now = StartHour
    /\ cacheFile = AbsentFile
    /\ pc = "idle"
    /\ attempts = <<>>
    /\ writes = <<>>
    /\ outcome = "none"
    /\ result = None
    /\ cacheAtStart = AbsentFile
    /\ lastLiveStore = None
    /\ quoteAtStart = None

Init == InitChain /\ call = NoCall

Next ==
    \/ Tick
    \/ Tamper
    \/ LoadCache
    \/ TryMetalsApi
    \/ TryYahooFutures
    \/ TryYahooSpot
    \/ GenerateSimulated

\* the price source chain and its cache
Spec == Init /\ [][Next]_vars

NextVal ==
    \/ GetArbitrageSignal
    \/ CalculateEstimatedNav
    \/ CalculatePremium
    \/ GetGoldReturn
    \/ AnalyzeSingleFund

\* the valuation functions, called on inputs drawn from the grids
SpecVal == Init /\ [][NextVal]_vars

InitBatch ==
    /\ InitChain
    /\ call \in {[fn |-> "pending_batch", args |-> <<funds_data, gold_data>>] :
                    funds_data \in Batches, gold_data \in GoldData}

NextBatch ==
    \/ AnalyzeMultipleFunds
    \/ GetSummaryStats

\* a batch of fund records is analysed and then summarised
SpecBatch == InitBatch /\ [][NextBatch]_vars

InitFunds ==
    /\ InitChain
    /\ call \in {[fn |-> "pending_search", args |-> <<search_results>>] :
                    search_results \in SearchResults}

NextFunds == FetchGoldQdiiFunds

\* the fund list is built from the answers of the keyword searches
SpecFunds == InitFunds /\ [][NextFunds]_vars

InitFx == InitChain /\ call = FxIdle

NextFx ==
    \/ FxBegin
    \/ FxExchangeRateApi
    \/ FxErApi
    \/ FxYahoo
    \/ FxFallback

\* calls of fetch_exchange_rate, one after the other
SpecFx == InitFx /\ [][NextFx]_vars

InitCycle == InitChain /\ call = CycleIdle

NextCycle ==
    \/ CycleBegin
    \/ CycleSend
    \/ CycleAnswer
    \/ CycleWait
    \/ CycleTimeout
    \/ CycleEvaluate

\* the external calls of complete analysis cycles, second by second
SpecCycle == InitCycle /\ [][NextCycle]_vars

InitSource ==
    /\ InitChain
    /\ call \in UNION {{[fn |-> "pending_history", args |-> <<resp, today>>] :
                             resp \in YahooResponses(today)} : today \in CallDays}
                 \cup {[fn |-> "pending_metals", args |-> <<resp, today>>] :
                          resp \in MetalsResponses, today \in CallDays}
                 \cup {[fn |-> "pending_simulation", args |-> <<noise, c1, c2, today>>] :
                          noise \in BaseNoise, c1 \in Variations, c2 \in Variations,
                          today \in CallDays}

NextSource ==
    \/ FetchYahoo
    \/ FetchMetalsApi
    \/ GenerateRealisticGoldData

\* one price source, or the simulation, is called once on some day of a week
SpecSource == InitSource /\ [][NextSource]_vars

---------------------------------------------------------------------------
(* Properties of the price source chain *)

LiveSources == {"A", "B", "C"}
\* a cycle of fetch_gold_prices has just returned
CycleDone == pc = "idle" /\ outcome # "none"
\* a cycle is past step 1 and among the sources
InChain == pc \in {"A", "B", "C", "sim"}

\* the file holds a quote that load can read: JSON with data and an ISO timestamp
ReadableQuote(file) ==
    /\ file.kind = "json"
    /\ {"data", "timestamp"} \subseteq DOMAIN file
    /\ IsIso(file.timestamp)
\* the file is there and load cannot read a quote from it
Unreadable(file) == file.kind # "absent" /\ ~ReadableQuote(file)
\* now - fetched_at of a readable quote
Age(file, hour) == hour - fromisoformat(file.timestamp)

Sources(seq) == [i \in 1..Len(seq) |-> seq[i].source]
FullTriple(r) ==
    /\ DOMAIN r = PeriodLabels
    /\ \A l \in PeriodLabels : DOMAIN r[l] = {"price", "date"}
\* the part of a returned mapping that is not one of the three price points
ResultTag(r) == [k \in (DOMAIN r) \ PeriodLabels |-> r[k]]

\* C1: a cycle returns the cached triple verbatim, contacting no source, if and
\* only if the cache holds a quote with now - fetched_at < 24h; with an older
\* quote the cycle does not return from the cache and source A is attempted.
C1_CacheUsedIffFresh ==
    /\ CycleDone /\ ReadableQuote(cacheAtStart) /\ Age(cacheAtStart, now) < StaleHours
         => /\ outcome = "cache"
            /\ result = cacheAtStart.data
            /\ attempts = <<>>
    /\ CycleDone /\ ReadableQuote(cacheAtStart) /\ Age(cacheAtStart, now) >= StaleHours
         => /\ outcome # "cache"
            /\ attempts # <<>>
            /\ attempts[1].source = "A"
    /\ CycleDone /\ outcome = "cache"
         => ReadableQuote(cacheAtStart) /\ Age(cacheAtStart, now) < StaleHours
    /\ InChain
         => ~(ReadableQuote(cacheAtStart) /\ Age(cacheAtStart, now) < StaleHours)

\* a cycle that found a quote exactly 24 hours old and went to source A
C1_Witness ==
    /\ CycleDone
    /\ ReadableQuote(cacheAtStart)
    /\ Age(cacheAtStart, now) = StaleHours
    /\ outcome \in LiveSources
    /\ attempts[1].source = "A"

C3_OnlySourceAWrites ==
    CycleDone /\ outcome \in {"B", "C", "cache", "sim"} => writes = <<>>

\* C3 as amended: every live success (A, B or C) writes the cache, and nothing
\* else does: no write after a cache hit, with simulated data, or while the
\* sources tried so far have failed.
C3_LiveSuccessWrites ==
    /\ CycleDone /\ outcome \in LiveSources => writes # <<>>
    /\ CycleDone /\ outcome \in {"cache", "sim"} => writes = <<>>
    /\ InChain => writes = <<>>

\* a cycle that ended with source B and wrote the cache
C3_Witness ==
    /\ CycleDone
    /\ outcome = "B"
    /\ writes # <<>>
    /\ cacheFile # cacheAtStart

\* C4: the simulated triple carries a tag that a live triple does not carry:
\* the result of a cycle that ended with simulated data differs in its tag
\* from the result of the last cycle that ended with a live source.
C4_SimulatedIsTagged ==
    CycleDone /\ outcome = "sim" /\ lastLiveStore # None
        => ResultTag(result) # ResultTag(lastLiveStore.triple)

\* C5: a cycle in which A, B and C all fail returns simulated data and leaves
\* the cache file exactly as it was (absent, stale or unreadable), writing
\* nothing.
C5_SimulatedNotCached ==
    CycleDone /\ outcome = "sim"
        => /\ Sources(attempts) = SourceOrder
           /\ FullTriple(result)
           /\ writes = <<>>
           /\ cacheFile = cacheAtStart
           /\ lastLiveStore = quoteAtStart

\* a fully degraded cycle over a stale quote, which is still in the file
C5_Witness ==
    /\ CycleDone
    /\ outcome = "sim"
    /\ ReadableQuote(cacheAtStart)
    /\ cacheFile = cacheAtStart

\* C6: whatever the cache state and whichever sources fail, the cycle returns
\* without raising a mapping with exactly current, t1 and t2, each with a
\* price and a date.
C6_AlwaysFullTriple ==
    CycleDone => outcome # "raised" /\ FullTriple(result)

\* a cycle that returned a history of two business days, the cache unreadable
C6_Witness ==
    /\ CycleDone
    /\ outcome \in {"B", "C"}
    /\ Unreadable(cacheAtStart)
    /\ result.t2 = result.t1

\* C7: after a live success whose writes did not fail the cache holds exactly
\* the returned triple and the time of the fetch, replacing what was there;
\* a cycle less than 24h after such a store returns that same triple.
C7_CacheHoldsLastLiveFetch ==
    /\ CycleDone /\ outcome \in LiveSources
           /\ (\A i \in 1..Len(writes) : writes[i] = "none")
         => /\ cacheFile.kind = "json"
            /\ DOMAIN cacheFile = {"kind", "data", "timestamp", "source"}
            /\ cacheFile.data = result
            /\ IsIso(cacheFile.timestamp)
            /\ fromisoformat(cacheFile.timestamp) = now
    /\ CycleDone /\ quoteAtStart # None /\ now - quoteAtStart.time < StaleHours
         => /\ outcome = "cache"
            /\ result = quoteAtStart.triple

\* a later cycle that returned the triple of an earlier live fetch
C7_Witness ==
    /\ CycleDone
    /\ outcome = "cache"
    /\ quoteAtStart # None
    /\ now > quoteAtStart.time
    /\ result = quoteAtStart.triple

\* C8: an unreadable cache file is a cache miss (the cycle goes to source A)
\* and a failed cache write is swallowed (the cycle returns the live triple
\* it fetched); neither makes the cycle raise.
C8_CacheFaultsSwallowed ==
    /\ outcome # "raised"
    /\ CycleDone /\ Unreadable(cacheAtStart)
         => /\ outcome # "cache"
            /\ attempts # <<>>
            /\ attempts[1].source = "A"
    /\ InChain /\ Unreadable(cacheAtStart) /\ attempts = <<>> => pc = "A"
    /\ CycleDone /\ (\E i \in 1..Len(writes) : writes[i] # "none")
         => /\ outcome \in LiveSources
            /\ FullTriple(result)
            /\ result = attempts[Len(attempts)].got

\* a cycle over an unreadable file whose own cache write failed half way
C8_Witness ==
    /\ CycleDone
    /\ Unreadable(cacheAtStart)
    /\ outcome \in LiveSources
    /\ \E i \in 1..Len(writes) : writes[i] = "dump"
    /\ cacheFile = TruncatedFile

---------------------------------------------------------------------------
(* Properties of the valuation functions *)

\* C9: the signal is BUY iff premium < -0.01, SELL iff premium > 0.01 and HOLD
\* otherwise; premium = -0.01 and premium = 0.01 both give HOLD.
C9_SignalThresholds ==
    call.fn = "_get_arbitrage_signal"
        => LET p == call.args[1]
               below == 100 * p.num < -p.den
               above == 100 * p.num > p.den
           IN  /\ call.ret \in {"BUY", "SELL", "HOLD"}
               /\ call.ret = "BUY" <=> below
               /\ call.ret = "SELL" <=> above
               /\ call.ret = "HOLD" <=> ~below /\ ~above
               /\ 100 * p.num \in {-p.den, p.den} => call.ret = "HOLD"

\* the signal of a premium of exactly 0.01
C9_Witness ==
    /\ call.fn = "_get_arbitrage_signal"
    /\ call.args[1] = [num |-> 1, den |-> 100]
    /\ call.ret = "HOLD"

\* C10: for reported_nav > 0 the model NAV is reported_nav * (1 + return),
\* and it is 0 for reported_nav = 0.
C10_ModelNav ==
    call.fn = "calculate_estimated_nav"
        => LET nav == call.args[1]
               r == call.args[2]
           IN  /\ nav.num > 0
                    => call.ret = Rat(nav.num * (r.den + r.num), nav.den * r.den)
               /\ nav.num = 0 => call.ret.num = 0

\* the model NAV of 4.089 after a return of 0.0247
C10_Witness ==
    /\ call.fn = "calculate_estimated_nav"
    /\ call.args = <<[num |-> 4089, den |-> 1000], [num |-> 247, den |-> 10000]>>
    /\ call.ret = [num |-> 41899983, den |-> 10000000]

\* C11: the premium is (current_price - model_nav) / model_nav, 0 when
\* model_nav = 0; for model_nav > 0 it is strictly increasing in the price,
\* and the premium of a price equal to model_nav is 0.
C11_Premium ==
    call.fn = "calculate_premium"
        => LET p == call.args[1]
               m == call.args[2]
           IN  /\ ~call.raised
               /\ m.num = 0 => call.ret.num = 0
               /\ m.num # 0
                    => call.ret = Rat(p.num * m.den - m.num * p.den, p.den * m.num)
               /\ m.num > 0
                    => \A p2 \in PriceGrid :
                         RatLess(p, p2)
                             => RatLess(call.ret, calculate_premium(p2, m).ret)
               /\ p = m => call.ret.num = 0

\* the premium of the price 4.123 over a model NAV of 4.089
C11_Witness ==
    /\ call.fn = "calculate_premium"
    /\ call.args = <<[num |-> 4123, den |-> 1000], [num |-> 4089, den |-> 1000]>>
    /\ call.ret = [num |-> 34, den |-> 4089]

\* C12: the price-change fraction between the T-2 quote and the current
\* quote is (to - from) / from; it is 0, with no division error raised, when
\* the from-price is 0.
C12_GoldReturn ==
    (call.fn = "get_gold_return" /\ FullTriple(call.args[1]))
        => LET from == call.args[1]["t2"].price
               to == call.args[1]["current"].price
           IN  /\ ~call.raised
               /\ from = 0 => call.ret = RatOfInt(0)
               /\ from # 0 => call.ret = Rat(to - from, from)

\* a rise from 2000.00 to 2100.00 is 1/20
C12_Witness ==
    /\ call.fn = "get_gold_return"
    /\ FullTriple(call.args[1])
    /\ call.args[1]["t2"].price = 200000
    /\ call.args[1]["current"].price = 210000
    /\ call.ret = [num |-> 1, den |-> 20]

\* C13: evaluating one fund composes the steps: model_nav is the NAV model of
\* the reported NAV and the gold return, model_premium is the premium of the
\* price over model_nav, the signal classifies model_premium, and
\* premium_delta = model_premium - reported_premium / 100.  For NAV 4.089,
\* return 0.0247, price 4.123 and reported premium 0.54 the signal is BUY and
\* premium_delta is -0.0214 to four decimals.
C13_Evaluate ==
    (call.fn = "analyze_single_fund" /\ call.args[1] \in WellFormedFunds)
        => LET f == call.args[1]
               g == call.args[2]
               m == calculate_estimated_nav(f.nav_t2, g.gold_return_total)
               p == calculate_premium(f.current_price, m).ret
               delta == call.ret.premium_change
               \* p - reported / 100 over the common denominator
               den == WideMul(Wide(p.den), Wide(100 * f.premium_t1.den))
               num == WideSub(WideMul(Wide(p.num), Wide(100 * f.premium_t1.den)),
                              WideMul(Wide(f.premium_t1.num), Wide(p.den)))
           IN  /\ ~call.raised
               /\ call.ret.estimated_nav_current = m
               /\ call.ret.premium_current = p
               /\ call.ret.arbitrage_signal = _get_arbitrage_signal(p)
               /\ WideMul(delta.num, den) = WideMul(num, delta.den)
               /\ (f = FundRecord(f.fund_code, 4089, 4123, 54)
                      /\ g.gold_return_total = Rat(247, 10000))
                    => /\ call.ret.arbitrage_signal = "BUY"
                       /\ WideLess(WideMul(Wide(-21450), delta.den),
                                   WideMul(Wide(1000000), delta.num))
                       /\ WideLess(WideMul(Wide(1000000), delta.num),
                                   WideMul(Wide(-21350), delta.den))

\* the worked example: model NAV 4.1899983, premium -669983/41899983
C13_Witness ==
    /\ call.fn = "analyze_single_fund"
    /\ call.args = <<FundRecord("518880", 4089, 4123, 54),
                     [gold_return_total |-> Rat(247, 10000)]>>
    /\ call.ret.estimated_nav_current = [num |-> 41899983, den |-> 10000000]
    /\ call.ret.premium_current = [num |-> -669983, den |-> 41899983]
    /\ call.ret.premium_t1 = [num |-> 27, den |-> 5000]
    /\ call.ret.arbitrage_signal = "BUY"

\* C14: a fund with reported NAV 0 evaluates to model_nav 0, model_premium 0
\* and signal HOLD, and no division error is raised.
C14_ZeroNav ==
    (/\ call.fn = "analyze_single_fund"
     /\ call.args[1] \in WellFormedFunds
     /\ call.args[1].nav_t2.num = 0)
        => /\ ~call.raised
           /\ call.ret.estimated_nav_current = RatOfInt(0)
           /\ call.ret.premium_current = RatOfInt(0)
           /\ call.ret.arbitrage_signal = "HOLD"

\* a fund with NAV 0 and price 4.123 has been evaluated under a nonzero return
C14_Witness ==
    /\ call.fn = "analyze_single_fund"
    /\ call.args = <<FundRecord("518880", 0, 4123, 54),
                     [gold_return_total |-> Rat(247, 10000)]>>
    /\ ~call.raised
    /\ call.ret.arbitrage_signal = "HOLD"

---------------------------------------------------------------------------
(* Properties of the batch analysis *)

\* the place of the record with this code in the batch
InputIndex(funds_data, code) ==
    CHOOSE k \in 1 .. Len(funds_data) :
        IsDict(funds_data[k]) /\ funds_data[k].fund_code = code
\* the records of the batch whose analysis raises
RaisingRecords(funds_data, gold_data) ==
    {k \in 1 .. Len(funds_data) : analyze_single_fund(funds_data[k], gold_data).raised}

\* C15: the batch result is sorted by model_premium in ascending order, and
\* results with equal model_premium keep the order of their records in the
\* input.
C15_SortedStable ==
    (call.fn = "analyze_multiple_funds" /\ ~call.raised)
        => LET funds_data == call.args[1]
               out == call.ret
           IN  \A i, j \in 1 .. Len(out) :
                 i < j
                   => /\ ~RatLess(out[j].premium_current, out[i].premium_current)
                      /\ out[i].premium_current = out[j].premium_current
                           => InputIndex(funds_data, out[i].fund_code)
                                < InputIndex(funds_data, out[j].fund_code)

\* a batch whose first record has the largest premium and whose other two tie
C15_Witness ==
    /\ call.fn = "analyze_multiple_funds"
    /\ call.args[1] = <<FundRecord("518800", 4000, 4200, 54),
                        FundRecord("159934", 4089, 4123, 54),
                        FundRecord("518880", 4089, 4123, 54)>>
    /\ ~call.raised
    /\ Len(call.ret) = 3
    /\ call.ret[1].fund_code = "159934"
    /\ call.ret[2].fund_code = "518880"
    /\ call.ret[3].fund_code = "518800"

\* C16: a record whose evaluation raises is caught and skipped, whatever its
\* shape: the batch is not aborted and returns one result for every other
\* record.
C16_RaisingRecordSkipped ==
    call.fn = "analyze_multiple_funds"
        => /\ ~call.raised
           /\ Len(call.ret)
                = Len(call.args[1]) - Cardinality(RaisingRecords(call.args[1], call.args[2]))

\* C17: the statistics of an empty result list are empty; otherwise the count
\* is the number of results, min and max are the smallest and the largest
\* model_premium, and the four counters are the numbers of results with
\* premium > 0, with premium < 0, with signal BUY and with signal SELL.
C17_SummaryStats ==
    call.fn = "get_summary_stats"
        => LET rs == call.args[1]
               stats == call.ret
               I == 1 .. Len(rs)
               Zero == RatOfInt(0)
           IN  /\ rs = <<>> => DOMAIN stats = {}
               /\ rs # <<>>
                    => /\ stats.total_funds = Len(rs)
                       /\ \E i \in I : stats.min_premium = rs[i].premium_current
                       /\ \E i \in I : stats.max_premium = rs[i].premium_current
                       /\ \A i \in I :
                            /\ ~RatLess(rs[i].premium_current, stats.min_premium)
                            /\ ~RatLess(stats.max_premium, rs[i].premium_current)
                       /\ stats.funds_at_premium
                            = Cardinality({i \in I : RatLess(Zero, rs[i].premium_current)})
                       /\ stats.funds_at_discount
                            = Cardinality({i \in I : RatLess(rs[i].premium_current, Zero)})
                       /\ stats.buy_signals
                            = Cardinality({i \in I : rs[i].arbitrage_signal = "BUY"})
                       /\ stats.sell_signals
                            = Cardinality({i \in I : rs[i].arbitrage_signal = "SELL"})

\* statistics of three results: one at a discount with signal BUY, one at 0,
\* one at a premium with signal SELL
C17_Witness ==
    /\ call.fn = "get_summary_stats"
    /\ call.ret # EmptyStats
    /\ call.ret.total_funds = 3
    /\ call.ret.funds_at_discount = 1
    /\ call.ret.funds_at_premium = 1
    /\ call.ret.buy_signals = 1
    /\ call.ret.sell_signals = 1
    /\ call.ret.min_premium = [num |-> -669983, den |-> 41899983]

---------------------------------------------------------------------------
(* Properties of the fund list *)

\* every record of every candidate list, in discovery order
RECURSIVE Discovered(_)
Discovered(lists) ==
    IF lists = <<>> THEN <<>>
    ELSE Discovered(SubSeq(lists, 1, Len(lists) - 1)) \o lists[Len(lists)]
\* where a code is first seen
FirstSeen(records, code) ==
    CHOOSE k \in 1 .. Len(records) :
        /\ records[k].fund_code = code
        /\ \A h \in 1 .. k - 1 : records[h].fund_code # code

\* C18: the merged fund set holds, in discovery order, exactly one record per
\* distinct non-empty code, namely the first record seen for the code with all
\* its fields; a record without a code is not in it.
C18_MergeFirstWins ==
    call.fn = "fetch_gold_qdii_funds"
        => LET seen == Discovered(call.args[1])
               merged == call.result_funds
               Codes(records) ==
                   {records[k].fund_code : k \in 1 .. Len(records)} \ {""}
           IN  /\ Codes(merged) = Codes(seen)
               /\ \A i \in 1 .. Len(merged) :
                    /\ merged[i].fund_code # ""
                    /\ merged[i] = seen[FirstSeen(seen, merged[i].fund_code)]
               /\ \A i, j \in 1 .. Len(merged) :
                    i < j => FirstSeen(seen, merged[i].fund_code)
                               < FirstSeen(seen, merged[j].fund_code)

\* a code found twice with different prices, in two searches, behind a
\* record without a code
C18_Witness ==
    /\ call.fn = "fetch_gold_qdii_funds"
    /\ call.args[1] = <<<<SearchRecord("", "Gold ETF", 4123),
                          SearchRecord("518880", "Gold ETF", 4200)>>,
                        <<SearchRecord("159934", "Gold LOF", 4123),
                          SearchRecord("518880", "Gold ETF", 4123)>>>>
    /\ call.result_funds = <<SearchRecord("518880", "Gold ETF", 4200),
                             SearchRecord("159934", "Gold LOF", 4123)>>

---------------------------------------------------------------------------
(* Properties of the exchange rate chain *)

FxCall == call.fn = "fetch_exchange_rate"
\* an answer that carries a rate: status 200 with a nonzero CNY rate, or a
\* history with a close
FxSuccess(answer) ==
    \/ /\ "status_code" \in DOMAIN answer
       /\ answer.status_code = 200
       /\ answer.json # InvalidJson
       /\ "rates" \in DOMAIN answer.json
       /\ "CNY" \in DOMAIN answer.json.rates
       /\ answer.json.rates.CNY.num # 0
    \/ /\ "Close" \in DOMAIN answer
       /\ answer.Close # <<>>
FxRateOf(answer) ==
    IF "Close" \in DOMAIN answer THEN answer.Close[Len(answer.Close)]
    ELSE answer.json.rates.CNY
\* every provider contacted in this call has failed
FxAllFailed ==
    \A i \in 1 .. Len(call.attempts) : ~FxSuccess(call.attempts[i].answer)

C20_FixedFallback ==
    (FxCall /\ call.pc = "done" /\ FxAllFailed /\ call.lastFallback # None)
        => call.ret = call.lastFallback

\* C20 as the code has it: when all three providers fail the call returns
\* 7.15 plus a fresh random draw, rounded to four decimals.
C20_FallbackNearBase ==
    (FxCall /\ call.pc = "done" /\ FxAllFailed)
        => /\ Len(call.attempts) = 3
           /\ call.draw # None
           /\ LET units == call.ret.num * (10000 \div call.ret.den)
                  exact == FallbackBase + call.draw.noise
              IN  /\ 10000 % call.ret.den = 0
                  /\ 10 * units - 5 <= exact
                  /\ exact < 10 * units + 5

\* all three providers failed in two calls: the earlier one returned 7.05,
\* this one 7.25
C20_Witness ==
    /\ FxCall
    /\ call.pc = "done"
    /\ FxAllFailed
    /\ Len(call.attempts) = 3
    /\ call.lastFallback = FxRate(70500)
    /\ call.ret = FxRate(72500)

---------------------------------------------------------------------------
(* Properties of the analysis cycle *)

\* C21: every external call (price API, FX API, fund-listing API) is made with
\* a bounded timeout: no call of a cycle is still waiting for its endpoint
\* after the timeout of 10 seconds, so the cycle goes on when an endpoint
\* never responds.
C21_EveryCallBounded ==
    (InCycle /\ call.waiting) => call.waited <= RequestTimeout

---------------------------------------------------------------------------
(* Properties of one call of a price source *)

\* the rows of a history that are not on a Saturday or Sunday
BusinessCloses(rows) == SelectSeq(rows, LAMBDA row : Weekday(row.day) \notin {5, 6})

\* C22: sources B and C take the last three business-day closes as current,
\* t-1 and t-2, weekend rows discarded; with fewer than three closes left the
\* fetch still succeeds: with two closes t-2 equals t-1, with one close t-1
\* and t-2 both equal current.
C22_CollapseToNearest ==
    (call.fn = "fetch_gold_prices_yahoo_finance" /\ call.args[1].kind = "history")
        => LET closes == BusinessCloses(call.args[1].rows)
               n == Len(closes)
               At(k) == Point(closes[k].close, closes[k].day)
           IN  n >= 1
                 => /\ ~call.raised
                    /\ call.ret # None
                    /\ call.ret.current = At(n)
                    /\ call.ret.t1 = IF n >= 2 THEN At(n - 1) ELSE At(n)
                    /\ call.ret.t2 = IF n >= 3 THEN At(n - 2)
                                     ELSE IF n = 2 THEN At(n - 1) ELSE At(n)

\* C23: in the triples of source A and of the simulated fallback the dates
\* are moved back across the weekend: on a Monday t-1 is the Friday and t-2 the
\* Thursday before, on a Tuesday t-2 is the Friday before; so on every current
\* date from Monday to Friday t-1 and t-2 are business days and
\* t-2 < t-1 < current.
C23_WeekendAdjusted ==
    (/\ call.fn \in {"fetch_metals_api_gold", "_generate_realistic_gold_data"}
     /\ call.ret # None)
        => LET today == call.today
               r == call.ret
           IN  /\ r.current.date = today
               /\ Weekday(today) = 0
                    => r.t1.date = today - 3 /\ r.t2.date = today - 4
               /\ Weekday(today) = 1 => r.t2.date = today - 4
               /\ Weekday(today) \in 0 .. 4
                    => /\ Weekday(r.t1.date) \in 0 .. 4
                       /\ Weekday(r.t2.date) \in 0 .. 4
                       /\ r.t2.date < r.t1.date
                       /\ r.t1.date < r.current.date

\* source A answered on a Tuesday: t-1 is the Monday, t-2 the Friday before
C23_Witness ==
    /\ call.fn = "fetch_metals_api_gold"
    /\ call.ret # None
    /\ Weekday(call.today) = 1
    /\ call.ret.t1.date = call.today - 1
    /\ Weekday(call.ret.t2.date) = 4

---------------------------------------------------------------------------
(* Further properties of the price source chain *)

\* C24: the source identifier stored with a cached quote names the provider
\* whose live fetch produced the triple: after a success of source A it is not
\* the identifier of Yahoo Finance, after a success of source B or C it is.
C24_SourceNamesProvider ==
    (/\ CycleDone
     /\ outcome \in LiveSources
     /\ \A i \in 1 .. Len(writes) : writes[i] = "none")
        => /\ cacheFile.kind = "json"
           /\ cacheFile.data = result
           /\ (cacheFile.source = "yahoo_finance") <=> (outcome \in {"B", "C"})

\* a quote that load can read and that is 24 hours old or older
StaleQuote(file, hour) == ReadableQuote(file) /\ Age(file, hour) >= StaleHours
\* the triples the generator can give on a day
SimulatedTriples(today) ==
    {_generate_realistic_gold_data(noise, c1, c2, today) :
         noise \in BaseNoise, c1 \in Variations, c2 \in Variations}

\* two files holding the same readable quote
SameQuote(f, g) ==
    /\ ReadableQuote(f) /\ ReadableQuote(g)
    /\ f.timestamp = g.timestamp
    /\ f.data = g.data

\* C25: a stale cached quote (now - fetched_at >= 24h) is never returned: a
\* cycle that starts over a stale quote goes to source A without returning;
\* when it ends with A, B and C failed it returns a generated triple and the
\* file keeps the stale quote; a stale quote left in the file stays stale as
\* time passes, so every following cycle goes to the live sources again.
C25_StaleNeverReturned ==
    [][
        /\ (/\ pc = "idle" /\ StaleQuote(cacheFile, now)
            /\ now' = now /\ SameQuote(cacheFile', cacheFile))
              => /\ pc' = "A"
                 /\ outcome' = "none"
                 /\ result' = None
        /\ (pc # "idle" /\ pc' = "idle" /\ StaleQuote(cacheAtStart, now))
              => \/ outcome' \in LiveSources /\ result' = attempts'[Len(attempts')].got
                 \/ /\ outcome' = "sim"
                    /\ Sources(attempts') = SourceOrder
                    /\ result' \in SimulatedTriples(DayOf(now))
                    /\ SameQuote(cacheFile', cacheAtStart)
                    /\ StaleQuote(cacheFile', now')
        /\ (StaleQuote(cacheFile, now) /\ SameQuote(cacheFile', cacheFile))
              => StaleQuote(cacheFile', now')
        /\ outcome' = "cache"
              => ~StaleQuote(cacheFile, now) /\ result' = cacheFile.data
    ]_vars

\* a cycle over a quote older than 24 hours in which every source failed: it
\* returned a generated triple, not the cached one, which is still in the file
C25_Witness ==
    /\ CycleDone
    /\ outcome = "sim"
    /\ StaleQuote(cacheAtStart, now)
    /\ Age(cacheAtStart, now) > StaleHours
    /\ result # cacheAtStart.data
    /\ StaleQuote(cacheFile, now)

---------------------------------------------------------------------------
(* Further properties of the batch analysis *)

\* the signals of a result list, in its order
Signals(results) == [i \in 1 .. Len(results) |-> results[i].arbitrage_signal]

\* C26: in the sequence returned by analyze_multiple_funds the signals are
\* grouped in the order BUY, HOLD, SELL: no result with signal HOLD or SELL
\* precedes one with signal BUY, and no result with signal SELL precedes one
\* with signal HOLD.
C26_SignalsGrouped ==
    (call.fn = "analyze_multiple_funds" /\ ~call.raised)
        => LET signal == Signals(call.ret)
           IN  \A i, j \in 1 .. Len(signal) :
                 i < j
                   => /\ ~(signal[i] \in {"HOLD", "SELL"} /\ signal[j] = "BUY")
                      /\ ~(signal[i] = "SELL" /\ signal[j] = "HOLD")

\* a batch handed over in the order SELL, HOLD, BUY and returned in the order
\* BUY, HOLD, SELL
C26_Witness ==
    /\ call.fn = "analyze_multiple_funds"
    /\ ~call.raised
    /\ Len(call.args[1]) = 3
    /\ \A i \in 1 .. 3 : ~analyze_single_fund(call.args[1][i], call.args[2]).raised
    /\ [i \in 1 .. 3 |->
          analyze_single_fund(call.args[1][i], call.args[2]).ret.arbitrage_signal]
         = <<"SELL", "HOLD", "BUY">>
    /\ Signals(call.ret) = <<"BUY", "HOLD", "SELL">>

---------------------------------------------------------------------------
(* Two fetch cycles on one cache file, without a lock *)

Cycles == {1, 2}
\* how often a finished cycle is started again
MaxRestarts == 1

\* the members of the document json.dump writes, in the order it writes them
DocumentParts == <<"current", "t1", "t2", "timestamp">>
\* what a position holds that no write has filled
Hole == [part |-> "hole"]

\* json.dump(cache_data, f, indent=2): the document in four parts, the three
\* price points of "data" and then the timestamp, the source and the closing
\* brace
json_dump(cache_data) ==
    <<[part |-> "current", value |-> cache_data.data.current],
      [part |-> "t1", value |-> cache_data.data.t1],
      [part |-> "t2", value |-> cache_data.data.t2],
      [part |-> "timestamp", value |-> cache_data.timestamp,
       source |-> cache_data.source]>>

\* json.load(f): the document if the content is a whole one; anything else is
\* a JSONDecodeError
json_load(content) ==
    IF /\ Len(content) = Len(DocumentParts)
       /\ \A i \in 1 .. Len(content) : content[i].part = DocumentParts[i]
    THEN [kind |-> "json",
          data |-> [current |-> content[1].value,
                    t1 |-> content[2].value,
                    t2 |-> content[3].value],
          timestamp |-> content[4].value,
          source |-> content[4].source]
    ELSE TruncatedFile

\* what the reader finds: os.path.exists, then open and json.load
OnDisk(disk) == IF ~disk.exists THEN AbsentFile ELSE json_load(disk.content)

\* open(self.cache_file, 'r+'): the content stays until it is overwritten
OpenForWrite_InPlace(content) == content

\* open(self.cache_file, 'w') empties the file
OpenForWrite(content) == <<>>

\* f.write at the writer's own offset
WriteAt(content, offset, parts) ==
    LET end == offset + Len(parts)
        len == IF Len(content) > end THEN Len(content) ELSE end
    IN  [i \in 1 .. len |->
           IF i > offset /\ i <= end THEN parts[i - offset]
           ELSE IF i <= Len(content) THEN content[i]
           ELSE Hole]

\* the answers of the live sources in a cycle: source A quoting a price or
\* failing, sources B and C giving the closes of today and of the business
\* day before or failing
RaceAnswers(name, hour) ==
    LET today == DayOf(hour)
        before == AdjustedDates(today).t1
    IN  IF name = "A"
        THEN {fetch_metals_api_gold(resp, today).ret :
                resp \in {r \in MetalsResponses : r.v1 = 2 /\ r.v2 = 2}}
        ELSE {fetch_gold_prices_yahoo_finance(resp, AbsentFile, hour, "none").ret :
                resp \in {[kind |-> "error", rows |-> <<>>]}
                         \cup {[kind |-> "history",
                                rows |-> <<[day |-> before, close |-> p],
                                           [day |-> today, close |-> p]>>] :
                                 p \in PriceSet}}
\* _cache_gold_data is called once after source A, and twice after source B
\* or C: in fetch_gold_prices_yahoo_finance and again in fetch_gold_prices
StoresAfter(name) == IF name = "A" THEN 1 ELSE 2

\* a cycle about to load the cache. loaded is what the load gave; during and
\* saw record, until the first source has answered, that the other cycle was
\* writing when the file was read and how many parts the file held
CycleAtLoad ==
    [pc |-> "load", outcome |-> "none", raised |-> FALSE, ret |-> None,
     loaded |-> None, during |-> FALSE, saw |-> 0,
     data |-> None, offset |-> 0, pending |-> 0]

\* a quote an earlier cycle left in the file
EarlierQuote(age) ==
    _cache_gold_data(fetch_metals_api_gold(
                         [kind |-> "ok", price |-> BasePrice, v1 |-> 2, v2 |-> 2],
                         DayOf(StartHour - age)).ret,
                     AbsentFile, StartHour - age, "none").file
RaceStart(disk, stored) ==
    [fn |-> "fetch_gold_prices x 2", disk |-> disk, cycle |-> [c \in Cycles |-> CycleAtLoad],
     stored |-> stored, overlapped |-> FALSE, restarts |-> 0]

InRace == call.fn = "fetch_gold_prices x 2"
Writing(cycle, c) == cycle[c].pc = "write"

\* step 1: cached_data = self._load_cached_gold_data(); return it if truthy
RaceLoad ==
    \E c \in Cycles :
    /\ InRace
    /\ call.cycle[c].pc = "load"
    /\ LET cached_data == _load_cached_gold_data(OnDisk(call.disk), now)
           me == [call.cycle[c] EXCEPT
                    !.loaded = cached_data.ret,
                    !.during = \E o \in Cycles \ {c} : Writing(call.cycle, o),
                    !.saw = Len(call.disk.content)]
       IN  call' = [call EXCEPT !.cycle[c] =
                      IF cached_data.raised
                      THEN [me EXCEPT !.pc = "done", !.outcome = "raised", !.raised = TRUE]
                      ELSE IF Truthy(cached_data.ret)
                           THEN [me EXCEPT !.pc = "done", !.outcome = "cache",
                                           !.ret = cached_data.ret]
                           ELSE [me EXCEPT !.pc = "A"]]
    /\ UNCHANGED chainVars

\* steps 2 to 4: one live source answers
RaceFetch ==
    \E c \in Cycles :
    /\ InRace
    /\ call.cycle[c].pc \in LiveSources
    /\ LET me == call.cycle[c]
       IN  \E got \in RaceAnswers(me.pc, now) :
             call' = [call EXCEPT !.cycle[c] =
                        IF Truthy(got)
                        THEN [me EXCEPT !.pc = "open", !.outcome = me.pc, !.data = got,
                                        !.pending = StoresAfter(me.pc),
                                        !.during = FALSE, !.saw = 0]
                        ELSE [me EXCEPT !.pc = NextStep(me.pc),
                                        !.during = FALSE, !.saw = 0]]
    /\ UNCHANGED chainVars

\* _cache_gold_data: open(self.cache_file, 'w')
RaceOpen ==
    \E c \in Cycles :
    /\ InRace
    /\ call.cycle[c].pc = "open"
    /\ call' = [call EXCEPT
                  !.disk = [exists |-> TRUE, content |-> OpenForWrite(@.content)],
                  !.stored = @ \cup {call.cycle[c].data},
                  !.overlapped = @ \/ \E o \in Cycles \ {c} : Writing(call.cycle, o),
                  !.cycle[c] = [call.cycle[c] EXCEPT !.pc = "write", !.offset = 0]]
    /\ UNCHANGED chainVars

\* _cache_gold_data: json.dump reaches the file in one piece or in several;
\* after the last part the file is closed and the cycle stores again or returns
RaceWrite ==
    \E c \in Cycles :
    /\ InRace
    /\ call.cycle[c].pc = "write"
    /\ LET me == call.cycle[c]
           document == json_dump(_cache_gold_data(me.data, AbsentFile, now, "none").file)
       IN  \E n \in 1 .. (Len(document) - me.offset) :
             LET end == me.offset + n
                 written == WriteAt(call.disk.content, me.offset,
                                    SubSeq(document, me.offset + 1, end))
             IN  call' = [call EXCEPT
                            !.disk = [exists |-> TRUE, content |-> written],
                            !.cycle[c] =
                               IF end < Len(document) THEN [me EXCEPT !.offset = end]
                               ELSE IF me.pending > 1
                                    THEN [me EXCEPT !.pc = "open", !.offset = 0,
                                                    !.pending = @ - 1]
                                    ELSE [me EXCEPT !.pc = "done", !.offset = 0,
                                                    !.pending = 0, !.ret = me.data,
                                                    !.data = None]]
    /\ UNCHANGED chainVars

\* step 5: return self._generate_realistic_gold_data()
RaceSimulated ==
    \E c \in Cycles :
    /\ InRace
    /\ call.cycle[c].pc = "sim"
    /\ \E noise \in BaseNoise :
         LET prices == _generate_realistic_gold_data(noise, 2, 2, DayOf(now))
         IN  call' = [call EXCEPT !.cycle[c] =
                        [call.cycle[c] EXCEPT !.pc = "done", !.outcome = "sim",
                                              !.ret = prices]]
    /\ UNCHANGED chainVars

\* the process that finished a cycle runs the next one
RaceAgain ==
    \E c \in Cycles :
    /\ InRace
    /\ call.cycle[c].pc = "done"
    /\ ~call.cycle[c].raised
    /\ call.restarts < MaxRestarts
    /\ call' = [call EXCEPT !.cycle[c] = CycleAtLoad, !.restarts = @ + 1]
    /\ UNCHANGED chainVars


InitRace ==
    /\ InitChain
    /\ call \in {RaceStart([exists |-> FALSE, content |-> <<>>], {})}
                \cup {RaceStart([exists |-> TRUE, content |-> json_dump(EarlierQuote(age))],
                                {EarlierQuote(age).data}) :
                        age \in {TickHours, StaleHours}}

NextRace ==
    \/ RaceLoad
    \/ RaceFetch
    \/ RaceOpen
    \/ RaceWrite
    \/ RaceSimulated
    \/ RaceAgain

\* two processes run fetch cycles on the same cache file, their steps interleaved
SpecRace == InitRace /\ [][NextRace]_vars

\* C27: a cycle that reads the cache file while the other cycle is in the
\* middle of overwriting it (file empty or partly written) never raises and
\* never returns a partial triple: its load gives a complete triple that some
\* cycle stored, and the cycle returns it, or it gives None and the cycle
\* goes on to the live sources.
C27_ReaderDuringWrite ==
    InRace =>
      \A c \in Cycles :
        LET me == call.cycle[c]
        IN  /\ ~me.raised /\ me.outcome # "raised"
            /\ (me.pc # "load" /\ ~call.overlapped)
                 => \/ /\ me.loaded \in call.stored
                       /\ FullTriple(me.loaded)
                       /\ me.pc = "done" /\ me.outcome = "cache" /\ me.ret = me.loaded
                    \/ /\ me.loaded = None
                       /\ me.outcome # "cache"
                       /\ me.pc \in LiveSources \cup {"sim", "open", "write", "done"}
                       /\ me.pc = "done" => me.outcome \in LiveSources \cup {"sim"}
            /\ (me.pc # "load" /\ me.during /\ me.saw < Len(DocumentParts))
                 => me.loaded = None

\* a cycle that read the file when the other cycle had written one or two
\* price points of a fresh quote and not yet the rest, took it as a miss and
\* is now at source A
C27_Witness ==
    /\ InRace
    /\ ~call.overlapped
    /\ \E c \in Cycles :
         /\ call.cycle[c].pc = "A"
         /\ call.cycle[c].during
         /\ call.cycle[c].saw \in 1 .. 2
         /\ call.cycle[c].loaded = None
         /\ call.cycle[c].outcome = "none"

====
